---- MODULE Spec2Model ----
(***************************************************************************)
(* Model of bot/exts/filtering/_filter_lists/filter_list.py:               *)
(*   ListType, ListTypeConverter.convert, FilterList.add_list and          *)
(*   FilterList.filter_list_result.                                        *)
(*                                                                         *)
(* Three specifications share the variables below:                         *)
(*   SpecResolve  one call of filter_list_result, statement by statement   *)
(*   SpecConv     one call of ListTypeConverter.convert                    *)
(*   SpecAdd      add_list calls on one FilterList, statement by           *)
(*                statement, with a dispatch running on another thread     *)
(***************************************************************************)
EXTENDS Integers, Sequences, FiniteSets, TLC

VARIABLES
    \* ---- filter_list_result(ctx, filters, defaults) ----
    pool,               \* the Filter objects: identity -> [validations, triggers]
    filters,            \* argument `filters`: a list of Filter identities
    defaults_arg,       \* argument `defaults`: a ValidationSettings
    rpc,                \* position in filter_list_result
    idx,                \* loop position in `for filter_ in filters`
    passed_by_default,  \* local of line 85
    failed_by_default,  \* local of line 85
    default_answer,     \* local of line 86
    relevant_filters,   \* local of line 88, returned at line 99
    evalCount,          \* number of defaults.evaluate(ctx) calls made
    trigCalls,          \* the filters whose triggered_on(ctx) was invoked, in order
    \* ---- ListTypeConverter.convert(ctx, argument) ----
    argument,           \* the token given to convert
    result,             \* what convert returned or raised
    \* ---- FilterList and add_list(list_data) ----
    defaults,           \* self.defaults: list type -> {"actions", "validations"}
    filter_lists,       \* self.filter_lists: list type -> list of Filter
    apc,                \* position of the thread running add_list
    call,               \* the running (or last) add_list call: argument and locals
    nCalls,             \* number of add_list calls started
    outcome,            \* how the last add_list call ended
    pre,                \* <<defaults, filter_lists>> when the last call started
    \* ---- a dispatch (actions_for) on another thread ----
    dpc,                \* position of the dispatching thread
    dFilters,           \* the `filters` argument it gave filter_list_result
    dDefaults           \* the `defaults` argument it gave filter_list_result

resolveVars == <<pool, filters, defaults_arg, rpc, idx, passed_by_default,
                 failed_by_default, default_answer, relevant_filters,
                 evalCount, trigCalls>>
convVars == <<argument, result>>
addVars == <<defaults, filter_lists, apc, call, nCalls, outcome, pre>>
dispVars == <<dpc, dFilters, dDefaults>>
vars == <<resolveVars, convVars, addVars, dispVars>>

-----------------------------------------------------------------------------
(* Bounds *)

\* longest `filters` list given to filter_list_result
MaxFilters == 2

\* most add_list calls made on the FilterList
MaxCalls == 2

\* most filter payloads in one list_data["filters"]
MaxPayloadFilters == 2

-----------------------------------------------------------------------------
(* ListType, lines 16-20 *)

DENY == "DENY"
ALLOW == "ALLOW"
ListType == {DENY, ALLOW}

-----------------------------------------------------------------------------
(* Validation settings and filters as filter_list_result sees them.        *)
(* The context is opaque: a validation rule is its name and the verdict it *)
(* gives on the context of the call, a filter's trigger is the value       *)
(* triggered_on(ctx) returns.                                              *)

Names == {"public_channel", "other_rule"}

RuleSets == UNION {[S -> BOOLEAN] : S \in SUBSET Names}

EmptyRules == [n \in {} |-> TRUE]

\* filter_.validations is None
NoValidations == [present |-> FALSE, rules |-> EmptyRules]

\* filter_.validations is a ValidationSettings holding `r`
Settings(r) == [present |-> TRUE, rules |-> r]

ValidationValues == {NoValidations} \cup {Settings(r) : r \in RuleSets}

FilterIds == {"F1", "F2"}

FilterObjects == [validations : ValidationValues, triggers : BOOLEAN]

\* ValidationSettings.evaluate(ctx): the names that passed, the names that failed
evaluate(v) ==
    <<{n \in DOMAIN v.rules : v.rules[n]}, {n \in DOMAIN v.rules : ~v.rules[n]}>>

\* bool(filter_.validations): None is false, a settings object is true
Truthy(v) == v.present

\* Python's a < b on sets: proper subset
ProperSubset(a, b) == a \subseteq b /\ a /= b

-----------------------------------------------------------------------------
(* FilterList.filter_list_result, lines 70-99 *)

\* line 86 without the test of failed_by_default
DefaultAnswerIgnoringFailures(failed) == TRUE

\* line 86: default_answer = not bool(failed_by_default)
DefaultAnswer(failed) == failed = {}

\* line 95: not failed and failed_by_default < passed
OverridesApply(v, fbd) ==
    LET ev == evaluate(v)
    IN  ev[2] = {} /\ ProperSubset(fbd, ev[1])

\* triggered_on(ctx) evaluated before the filter is found relevant
TriggerInvokedEager(f, answer, fbd) == TRUE

\* lines 90-96: whether control reaches filter_.triggered_on(ctx) for `f`.
\* Line 91 is `default_answer and filter_.triggered_on(ctx)`: the trigger is
\* the right operand of `and`, evaluated only when default_answer is true.
TriggerInvoked(f, answer, fbd) ==
    IF ~Truthy(f.validations)
    THEN answer
    ELSE OverridesApply(f.validations, fbd)

\* lines 91-92 and 96-97: whether `f` is appended to relevant_filters
Appended(f, answer, fbd) == TriggerInvoked(f, answer, fbd) /\ f.triggers

\* lines 92 and 97 as relevant_filters.extend(filters)
AppendWholeList(rel, id) == rel \o filters

\* lines 92 and 97: relevant_filters.append(filter_)
AppendRelevant(rel, id) == Append(rel, id)

\* line 85
EvalDefaults ==
    /\ rpc = "start"
    /\ passed_by_default' = evaluate(defaults_arg)[1]
    /\ failed_by_default' = evaluate(defaults_arg)[2]
    /\ default_answer' = DefaultAnswer(evaluate(defaults_arg)[2])
    /\ evalCount' = evalCount + 1
    /\ relevant_filters' = <<>>
    /\ idx' = 1
    /\ rpc' = "loop"
    /\ UNCHANGED <<pool, filters, defaults_arg, trigCalls, convVars, addVars, dispVars>>

\* one iteration of the loop of lines 89-97
LoopIter ==
    /\ rpc = "loop"
    /\ idx <= Len(filters)
    /\ LET id == filters[idx]
           f  == pool[id]
       IN  /\ trigCalls' =
                 IF TriggerInvoked(f, default_answer, failed_by_default)
                 THEN Append(trigCalls, id)
                 ELSE trigCalls
           /\ relevant_filters' =
                 IF Appended(f, default_answer, failed_by_default)
                 THEN AppendRelevant(relevant_filters, id)
                 ELSE relevant_filters
    /\ idx' = idx + 1
    /\ UNCHANGED <<pool, filters, defaults_arg, rpc, passed_by_default,
                   failed_by_default, default_answer, evalCount, convVars, addVars, dispVars>>

\* line 99
Return ==
    /\ rpc = "loop"
    /\ idx > Len(filters)
    /\ rpc' = "done"
    /\ UNCHANGED <<pool, filters, defaults_arg, idx, passed_by_default,
                   failed_by_default, default_answer, relevant_filters,
                   evalCount, trigCalls, convVars, addVars, dispVars>>

FilterLists == UNION {[1..n -> FilterIds] : n \in 0..MaxFilters}

\* FilterList.__init__, lines 46-50
AddIdle ==
    /\ defaults = <<>>
    /\ filter_lists = <<>>
    /\ apc = "idle"
    /\ call = [n |-> 0, settings |-> "ok", raw |-> <<"int", 0>>, filters |-> <<>>,
               list_type |-> DENY, built |-> <<>>, i |-> 0]
    /\ nCalls = 0
    /\ outcome = "none"
    /\ pre = <<<<>>, <<>>>>

DispIdle ==
    /\ dpc = "idle"
    /\ dFilters = <<>>
    /\ dDefaults = 0

ConvIdle ==
    /\ argument = <<>>
    /\ result = [kind |-> "idle", value |-> "", token |-> <<>>]

ResolveIdle ==
    /\ pool = [id \in FilterIds |-> [validations |-> NoValidations, triggers |-> FALSE]]
    /\ filters = <<>>
    /\ defaults_arg = Settings(EmptyRules)
    /\ rpc = "idle"
    /\ idx = 0
    /\ passed_by_default = {}
    /\ failed_by_default = {}
    /\ default_answer = FALSE
    /\ relevant_filters = <<>>
    /\ evalCount = 0
    /\ trigCalls = <<>>

InitResolve ==
    /\ pool \in [FilterIds -> FilterObjects]
    /\ filters \in FilterLists
    /\ defaults_arg \in {Settings(r) : r \in RuleSets}
    /\ rpc = "start"
    /\ idx = 0
    /\ passed_by_default = {}
    /\ failed_by_default = {}
    /\ default_answer = FALSE
    /\ relevant_filters = <<>>
    /\ evalCount = 0
    /\ trigCalls = <<>>
    /\ ConvIdle
    /\ AddIdle
    /\ DispIdle

NextResolve == EvalDefaults \/ LoopIter \/ Return

SpecResolve == InitResolve /\ [][NextResolve]_vars

-----------------------------------------------------------------------------
(* Properties of filter_list_result, checked under SpecResolve *)

Count(seq, x) == Cardinality({i \in 1..Len(seq) : seq[i] = x})

InInput(id) == Count(filters, id) > 0

InResult(id) == Count(relevant_filters, id) > 0

\* the rule names of `defaults` that fail / of a filter's overrides that pass or fail
FailedDefaults == evaluate(defaults_arg)[2]
PassedOverrides(id) == evaluate(pool[id].validations)[1]
FailedOverrides(id) == evaluate(pool[id].validations)[2]

HasNonEmptyOverrides(id) ==
    pool[id].validations.present /\ DOMAIN pool[id].validations.rules /= {}

\* C1: a filter with a non-empty set of overrides is in the result iff none of
\* its overrides failed, every rule name that failed by default is among the
\* names its overrides passed (subset, equality allowed), and it triggers.
C1_OverrideReclamation ==
    rpc = "done" =>
        \A id \in FilterIds :
            (InInput(id) /\ HasNonEmptyOverrides(id)) =>
                (InResult(id) <=>
                    /\ FailedOverrides(id) = {}
                    /\ FailedDefaults \subseteq PassedOverrides(id)
                    /\ pool[id].triggers)

\* C2: a filter without overrides is in the result iff no default rule failed
\* and it triggers; so when a default fails no such filter is in the result.
C2_DefaultGate ==
    rpc = "done" =>
        \A id \in FilterIds :
            (InInput(id) /\ ~pool[id].validations.present) =>
                (InResult(id) <=> (FailedDefaults = {} /\ pool[id].triggers))

\* a default failed, and a triggering filter without overrides was left out
C2_Witness ==
    /\ rpc = "done"
    /\ FailedDefaults /= {}
    /\ \E id \in FilterIds :
          /\ InInput(id)
          /\ ~pool[id].validations.present
          /\ pool[id].triggers
          /\ ~InResult(id)

\* C3: a filter whose override set is present with zero entries gets the same
\* verdict as an otherwise identical filter with no override set.
C3_EmptyOverridesAsNone ==
    rpc = "done" =>
        \A a, b \in FilterIds :
            (/\ InInput(a) /\ InInput(b)
             /\ pool[a].validations = Settings(EmptyRules)
             /\ pool[b].validations = NoValidations
             /\ pool[a].triggers = pool[b].triggers)
            => (InResult(a) <=> InResult(b))

\* C4 as stated: the result never holds the same filter twice and never a filter
\* that is not in the input, whatever the input list.
C4_NoDuplicates ==
    rpc = "done" =>
        \A id \in FilterIds :
            /\ Count(relevant_filters, id) <= 1
            /\ InResult(id) => InInput(id)

\* C4 amended: the result holds each filter at most as many times as the input
\* list does (so never a filter that is not in the input, and no filter twice
\* when the input holds none twice).
C4_AtMostAsOftenAsInput ==
    rpc = "done" =>
        \A id \in FilterIds :
            Count(relevant_filters, id) <= Count(filters, id)

\* the same filter is twice in the input and twice in the result
C4_Witness ==
    /\ rpc = "done"
    /\ \E id \in FilterIds :
          Count(filters, id) = 2 /\ Count(relevant_filters, id) = 2

\* C9: the defaults are evaluated exactly once, before any filter is examined,
\* and triggered_on is invoked only for a filter found applicable: never for a
\* filter without overrides when a default failed, nor for a filter with
\* overrides when one of them failed or a failed default is not reclaimed.
C9_EvaluationOrder ==
    /\ rpc = "start" => (evalCount = 0 /\ idx = 0 /\ trigCalls = <<>>)
    /\ rpc \in {"loop", "done"} => evalCount = 1
    /\ \A i \in 1..Len(trigCalls) :
          LET id == trigCalls[i]
          IN  IF pool[id].validations.present
              THEN /\ FailedOverrides(id) = {}
                   /\ FailedDefaults \subseteq PassedOverrides(id)
              ELSE FailedDefaults = {}

\* one filter's trigger was invoked and another's was not
C9_Witness ==
    /\ rpc = "done"
    /\ evalCount = 1
    /\ \E a, b \in FilterIds :
          /\ InInput(a) /\ InInput(b)
          /\ Count(trigCalls, a) > 0
          /\ Count(trigCalls, b) = 0

-----------------------------------------------------------------------------
(* ListTypeConverter, lines 23-36.  A token is the sequence of its          *)
(* characters, so that past_tense can be computed on it.                    *)

\* lines 26-29
aliases ==
    << <<DENY, {<<"d", "e", "n", "y">>,
               <<"b", "l", "o", "c", "k", "l", "i", "s", "t">>,
               <<"b", "l", "a", "c", "k", "l", "i", "s", "t">>,
               <<"d", "e", "n", "y", "l", "i", "s", "t">>,
               <<"b", "l">>,
               <<"d", "l">>}>>,
       <<ALLOW, {<<"a", "l", "l", "o", "w">>,
                <<"a", "l", "l", "o", "w", "l", "i", "s", "t">>,
                <<"w", "h", "i", "t", "e", "l", "i", "s", "t">>,
                <<"a", "l">>,
                <<"w", "l">>}>> >>

Vowels == {"a", "e", "i", "o", "u"}

\* bot.exts.filtering._utils.past_tense: "e" takes "d", a consonant followed
\* by "y" turns the "y" into "ied", anything else takes "ed"
past_tense(word) ==
    IF word = <<>> THEN word
    ELSE IF word[Len(word)] = "e" THEN word \o <<"d">>
    ELSE IF word[Len(word)] = "y" /\ Len(word) > 1 /\ word[Len(word) - 1] \notin Vowels
         THEN SubSeq(word, 1, Len(word) - 1) \o <<"i", "e", "d">>
    ELSE word \o <<"e", "d">>

Returned(list_type) == [kind |-> "returned", value |-> list_type, token |-> <<>>]

\* line 36: raise BadArgument(f"No matching list type found for {argument!r}.")
BadArgument(token) == [kind |-> "raised", value |-> "BadArgument", token |-> token]

\* line 34 with `and` in place of `or`
convertBothForms(arg) ==
    LET hits == {i \in 1..Len(aliases) :
                    /\ arg \in aliases[i][2]
                    /\ arg \in {past_tense(a) : a \in aliases[i][2]}}
    IN  IF hits = {} THEN BadArgument(arg)
        ELSE Returned(aliases[CHOOSE i \in hits : \A j \in hits : i <= j][1])

\* lines 33-36: the first entry of `aliases` that matches decides
convert(arg) ==
    LET hits == {i \in 1..Len(aliases) :
                    \/ arg \in aliases[i][2]
                    \/ arg \in {past_tense(a) : a \in aliases[i][2]}}
    IN  IF hits = {} THEN BadArgument(arg)
        ELSE Returned(aliases[CHOOSE i \in hits : \A j \in hits : i <= j][1])

AllAliases == UNION {aliases[i][2] : i \in 1..Len(aliases)}

\* the tokens convert is tried on: the aliases, their past tenses, and near
\* misses (plurals, a plain "ed" suffix, a doubled past tense, a cut-off alias,
\* other capitalisation, the empty token)
Tokens ==
    AllAliases
    \cup {past_tense(a) : a \in AllAliases}
    \cup {a \o <<"s">> : a \in AllAliases}
    \cup {a \o <<"e", "d">> : a \in AllAliases}
    \cup {past_tense(past_tense(a)) : a \in AllAliases}
    \cup {SubSeq(a, 1, Len(a) - 1) : a \in AllAliases}
    \cup {<<>>, <<"D", "E", "N", "Y">>, <<"A", "l", "l", "o", "w">>,
          <<"b", "l", "o", "c", "k">>, <<"n", "o", "n", "e">>}

ConvertCall ==
    /\ result.kind = "pending"
    /\ result' = convert(argument)
    /\ UNCHANGED <<argument, resolveVars, addVars, dispVars>>

InitConv ==
    /\ argument \in Tokens
    /\ result = [kind |-> "pending", value |-> "", token |-> <<>>]
    /\ ResolveIdle
    /\ AddIdle
    /\ DispIdle

NextConv == ConvertCall

SpecConv == InitConv /\ [][NextConv]_vars

-----------------------------------------------------------------------------
(* Properties of convert, checked under SpecConv *)

\* the aliases listed under `list_type`, and their tense-adjusted forms
FormsOf(list_type) ==
    UNION {aliases[i][2] \cup {past_tense(a) : a \in aliases[i][2]} :
              i \in {j \in 1..Len(aliases) : aliases[j][1] = list_type}}

\* C6: every alias and every tense-adjusted alias resolves to the member it is
\* listed under, no token resolves to both members, and any other token raises
\* the unknown-list-type error carrying that token.
C6_AliasTotality ==
    /\ FormsOf(DENY) \cap FormsOf(ALLOW) = {}
    /\ result.kind /= "pending" =>
          /\ argument \in FormsOf(DENY) => result = Returned(DENY)
          /\ argument \in FormsOf(ALLOW) => result = Returned(ALLOW)
          /\ argument \notin FormsOf(DENY) \cup FormsOf(ALLOW) =>
                result = BadArgument(argument)

\* a tense-adjusted form that is not itself an alias was resolved
C6_Witness ==
    /\ result.kind = "returned"
    /\ argument \notin AllAliases
    /\ argument \in {past_tense(a) : a \in AllAliases}

-----------------------------------------------------------------------------
(* FilterList.add_list, lines 52-64, statement by statement.                *)
(*                                                                          *)
(* list_data["settings"] is "ok" or "malformed" (create_settings raises on  *)
(* it); list_data["list_type"] is a tagged Python value, an int or a str;   *)
(* each entry of list_data["filters"] is what self.filter_type(...) does on *)
(* it: "ok" (a Filter is built), "TypeError" or "KeyError" (it raises).     *)

IntValue(n) == <<"int", n>>
StrValue(w) == <<"str", w>>

RawListTypes ==
    {IntValue(0), IntValue(1), IntValue(2),
     StrValue(<<"d", "e", "n", "y">>), StrValue(<<"a", "l">>)}

FilterKinds == {"ok", "TypeError", "KeyError"}

FilterPayloads == UNION {[1..n -> FilterKinds] : n \in 0..MaxPayloadFilters}

ListData == [settings : {"ok", "malformed"}, raw : RawListTypes, filters : FilterPayloads]

\* a reload as a configuration source sends it: everything well formed
ReloadData ==
    {d \in ListData :
        /\ d.settings = "ok"
        /\ d.raw \in {IntValue(0), IntValue(1)}
        /\ \A i \in 1..Len(d.filters) : d.filters[i] = "ok"}

NoListType == "ValueError"

\* line 55 with the values of the members exchanged
ListTypeSwapped(raw) ==
    IF raw = IntValue(1) THEN DENY
    ELSE IF raw = IntValue(0) THEN ALLOW
    ELSE NoListType

\* line 55, ListType(list_data["list_type"]): the member whose value it is
\* (lines 19-20), ValueError when it is the value of none
ListTypeOfValue(raw) ==
    IF raw = IntValue(0) THEN DENY
    ELSE IF raw = IntValue(1) THEN ALLOW
    ELSE NoListType

\* line 62 catching another exception type
CaughtValueError(kind) == kind = "ValueError"

\* line 62: except TypeError
Caught(kind) == kind = "TypeError"

Put(map, key, value) ==
    [k \in DOMAIN map \cup {key} |-> IF k = key THEN value ELSE map[k]]

\* the Filter that call `n` builds from entry `i` of its payload (line 61)
NewFilter(n, i) == [load |-> n, entry |-> i, actions |-> n]

\* lines 54-55
AddListCall(list_data) ==
    /\ apc = "idle"
    /\ nCalls < MaxCalls
    /\ nCalls' = nCalls + 1
    /\ pre' = <<defaults, filter_lists>>
    /\ call' = [n |-> nCalls + 1, settings |-> list_data.settings,
                raw |-> list_data.raw, filters |-> list_data.filters,
                list_type |-> IF ListTypeOfValue(list_data.raw) = NoListType
                              THEN DENY ELSE ListTypeOfValue(list_data.raw),
                built |-> <<>>, i |-> 0]
    /\ IF list_data.settings = "malformed"
       THEN apc' = "idle" /\ outcome' = "raised:settings"
       ELSE IF ListTypeOfValue(list_data.raw) = NoListType
       THEN apc' = "idle" /\ outcome' = "raised:ValueError"
       ELSE apc' = "l56" /\ outcome' = "running"
    /\ UNCHANGED <<defaults, filter_lists, resolveVars, convVars, dispVars>>

\* line 56, then line 58
SetDefaults ==
    /\ apc = "l56"
    /\ defaults' = Put(defaults, call.list_type,
                       [actions |-> call.n, validations |-> call.n])
    /\ call' = [call EXCEPT !.built = <<>>, !.i = 1]
    /\ apc' = "loop"
    /\ UNCHANGED <<filter_lists, nCalls, outcome, pre, resolveVars, convVars, dispVars>>

\* one iteration of the loop of lines 59-63
BuildFilter ==
    /\ apc = "loop"
    /\ call.i <= Len(call.filters)
    /\ LET kind == call.filters[call.i]
       IN  IF kind = "ok"
           THEN /\ call' = [call EXCEPT !.built = Append(@, NewFilter(call.n, call.i)),
                                        !.i = @ + 1]
                /\ UNCHANGED <<apc, outcome>>
           ELSE IF Caught(kind)
           THEN /\ call' = [call EXCEPT !.i = @ + 1]
                /\ UNCHANGED <<apc, outcome>>
           ELSE /\ apc' = "idle"
                /\ outcome' = "raised:filter"
                /\ UNCHANGED call
    /\ UNCHANGED <<defaults, filter_lists, nCalls, pre, resolveVars, convVars, dispVars>>

\* line 64
SetFilters ==
    /\ apc = "loop"
    /\ call.i > Len(call.filters)
    /\ filter_lists' = Put(filter_lists, call.list_type, call.built)
    /\ apc' = "idle"
    /\ outcome' = "returned"
    /\ UNCHANGED <<defaults, call, nCalls, pre, resolveVars, convVars, dispVars>>

\* A dispatch on another thread: a concrete actions_for reads the partition of
\* one list type and hands it to filter_list_result (lines 66-71 fix only the
\* signatures; the read is modelled as one step).
DispatchStart(list_type) ==
    /\ dpc = "idle"
    /\ list_type \in DOMAIN filter_lists
    /\ list_type \in DOMAIN defaults
    /\ dFilters' = filter_lists[list_type]
    /\ dDefaults' = defaults[list_type].validations
    /\ dpc' = "resolving"
    /\ UNCHANGED <<addVars, resolveVars, convVars>>

\* filter_list_result returns to the dispatch
DispatchReturn ==
    /\ dpc = "resolving"
    /\ dpc' = "idle"
    /\ UNCHANGED <<dFilters, dDefaults, addVars, resolveVars, convVars>>

InitAdd ==
    /\ AddIdle
    /\ DispIdle
    /\ ResolveIdle
    /\ ConvIdle

NextAdd ==
    \/ \E d \in ListData : AddListCall(d)
    \/ SetDefaults
    \/ BuildFilter
    \/ SetFilters

\* add_list calls made one after another
SpecAdd == InitAdd /\ [][NextAdd]_vars

NextReload ==
    \/ \E d \in ReloadData : AddListCall(d)
    \/ SetDefaults
    \/ BuildFilter
    \/ SetFilters
    \/ \E t \in ListType : DispatchStart(t)
    \/ DispatchReturn

\* reloads by add_list on one thread, dispatches on another
SpecReload == InitAdd /\ [][NextReload]_vars

-----------------------------------------------------------------------------
(* Properties of add_list, checked under SpecAdd (C7 under SpecReload) *)

\* an add_list call has been made and has ended
Finished == apc = "idle" /\ nCalls > 0

Raised == outcome \in {"raised:settings", "raised:ValueError", "raised:filter"}

\* the well-formed entries of the last call's payload, as filters, in order
WellFormed ==
    LET entries == [i \in 1..Len(call.filters) |-> i]
        ok == SelectSeq(entries, LAMBDA i : call.filters[i] = "ok")
    IN  [k \in 1..Len(ok) |-> NewFilter(call.n, ok[k])]

\* N and M of the last call's payload
NPayloads == Len(call.filters)
NMalformed == Cardinality({i \in 1..Len(call.filters) : call.filters[i] /= "ok"})
NTypeErrors == Cardinality({i \in 1..Len(call.filters) : call.filters[i] = "TypeError"})

\* the list type whose value the payload gives
TagOfValue == IF call.raw = IntValue(0) THEN DENY ELSE ALLOW

ValidValue == call.raw \in {IntValue(0), IntValue(1)}

\* the partition of `t` is the one the last call built
StoredBy(t) ==
    /\ t \in DOMAIN defaults
    /\ t \in DOMAIN filter_lists
    /\ defaults[t] = [actions |-> call.n, validations |-> call.n]
    /\ filter_lists[t] = WellFormed

Untouched == <<defaults, filter_lists>> = pre

\* C5 as stated: with M < N malformed filter payloads, whatever makes their
\* construction fail, add_list completes and stores exactly the N-M well-formed
\* filters; with a malformed settings payload it fails as a whole.
C5_AnyFailureTolerated ==
    Finished =>
        /\ (call.settings = "ok" /\ ValidValue /\ NMalformed < NPayloads) =>
              /\ outcome = "returned"
              /\ TagOfValue \in DOMAIN filter_lists
              /\ filter_lists[TagOfValue] = WellFormed
              /\ Len(filter_lists[TagOfValue]) = NPayloads - NMalformed
        /\ call.settings = "malformed" => (Raised /\ Untouched)

\* C5 amended: with M < N filter payloads whose construction raises TypeError
\* (and none raising anything else), add_list completes and stores exactly the
\* N-M well-formed filters; with a malformed settings payload it fails as a whole
\* and stores nothing.
C5_TypeErrorTolerated ==
    Finished =>
        /\ (call.settings = "ok" /\ ValidValue /\ NMalformed < NPayloads
                /\ NTypeErrors = NMalformed) =>
              /\ outcome = "returned"
              /\ TagOfValue \in DOMAIN filter_lists
              /\ filter_lists[TagOfValue] = WellFormed
              /\ Len(filter_lists[TagOfValue]) = NPayloads - NMalformed
        /\ (call.settings = "ok" /\ ValidValue /\ NTypeErrors < NMalformed) =>
              outcome = "raised:filter"
        /\ call.settings = "malformed" => (Raised /\ Untouched)

\* two payloads, one raising TypeError: the partition holds the other one
C5_Witness ==
    /\ Finished
    /\ outcome = "returned"
    /\ NPayloads = 2
    /\ NTypeErrors = 1
    /\ Len(filter_lists[TagOfValue]) = 1

\* C8 as stated: the list_type token is resolved as convert resolves it: an
\* alias of DENY (ALLOW) stores the partition under DENY (ALLOW), and an unknown
\* token makes add_list fail with nothing stored.
C8_ResolvedByAlias ==
    (Finished /\ call.settings = "ok" /\ NMalformed = 0 /\ call.raw[1] = "str") =>
        /\ convert(call.raw[2]) = Returned(DENY) => (outcome = "returned" /\ StoredBy(DENY))
        /\ convert(call.raw[2]) = Returned(ALLOW) => (outcome = "returned" /\ StoredBy(ALLOW))
        /\ convert(call.raw[2]).kind = "raised" => (Raised /\ Untouched)

\* C8 amended: the list_type token is resolved as a value of the enumeration:
\* 0 stores the partition under DENY and 1 under ALLOW when the call returns,
\* and any other token, the aliases of convert included, makes add_list fail
\* with the error propagated and nothing stored.
C8_ResolvedByValue ==
    (Finished /\ call.settings = "ok") =>
        /\ (call.raw = IntValue(0) /\ outcome = "returned") => StoredBy(DENY)
        /\ (call.raw = IntValue(1) /\ outcome = "returned") => StoredBy(ALLOW)
        /\ (call.raw = IntValue(0) /\ NMalformed = NTypeErrors) => outcome = "returned"
        /\ (call.raw = IntValue(1) /\ NMalformed = NTypeErrors) => outcome = "returned"
        /\ call.raw \notin {IntValue(0), IntValue(1)} =>
              (outcome = "raised:ValueError" /\ Untouched)

\* an alias that convert resolves was given to add_list, which raised
C8_Witness ==
    /\ Finished
    /\ call.settings = "ok"
    /\ call.raw[1] = "str"
    /\ convert(call.raw[2]).kind = "returned"
    /\ outcome = "raised:ValueError"
    /\ Untouched

\* C10: between add_list calls, defaults and filter_lists have the same list
\* types as keys, the stored defaults and filters of a list type come from the
\* same call, and a call that raised left both mappings as they were.
C10_MappingsAgree ==
    apc = "idle" =>
        /\ DOMAIN defaults = DOMAIN filter_lists
        /\ \A t \in DOMAIN defaults \cap DOMAIN filter_lists :
              \A i \in 1..Len(filter_lists[t]) :
                  filter_lists[t][i].load = defaults[t].validations
        /\ Raised => Untouched

\* C7: a dispatch never pairs the default validations of one load with the
\* filters of another load.
C7_OneSnapshot ==
    dpc = "resolving" =>
        \A i \in 1..Len(dFilters) : dFilters[i].load = dDefaults

====
